---- MODULE Spec2Model ----
(***************************************************************************)
(* One Markov-chain step of pymcmcstat: the single-stage Metropolis        *)
(* transition (samplers/Metropolis.py) and the multi-stage Delayed         *)
(* Rejection transition with its recursive acceptance probability          *)
(* (DelayedRejectionAlgorithm.py).                                         *)
(*                                                                         *)
(* Numbers.  The code computes in IEEE doubles; the model computes in      *)
(* exact rationals extended with +inf, -inf and NaN, with numpy's rules    *)
(* for them (inf - inf = NaN, 0 * inf = NaN, 0.0 ** -1 = inf, every        *)
(* comparison with NaN is false).  exp is modelled on exponents y whose    *)
(* double 2y is an integer, as exp(y) = 2 ^ (2y): the exponential with     *)
(* base 4 instead of base e.  It keeps what the algorithm uses of exp: it  *)
(* is positive, strictly increasing, exp(0) = 1, exp(a+b) = exp(a)exp(b),  *)
(* exp(-inf) = 0, exp(+inf) = +inf, exp(NaN) = NaN.  npar = 1.             *)
(***************************************************************************)
EXTENDS Integers, Sequences, FiniteSets, TLC

\* ------------------------------------------------------------ bounds
\* largest finite sum-of-squares value a collaborator returns
MaxSS == 2
\* largest finite prior value a collaborator returns
MaxPrior == 1
\* largest number of tries (ntry) of a delayed-rejection run
MaxNtry == 3

\* ------------------------------------------------------------ numbers
Abs(i) == IF i < 0 THEN -i ELSE i

RECURSIVE GCD(_, _)
GCD(a, b) == IF b = 0 THEN a ELSE GCD(b, a % b)

\* the rational n/d in lowest terms, d > 0
Rat(n, d) ==
    LET g == GCD(Abs(n), Abs(d))
        s == IF d < 0 THEN -1 ELSE 1
    IN  [k |-> "fin", n |-> s * (n \div g), d |-> s * (d \div g)]

Fin(n) == [k |-> "fin", n |-> n, d |-> 1]
PInf == [k |-> "pinf", n |-> 0, d |-> 1]
NInf == [k |-> "ninf", n |-> 0, d |-> 1]
NaN == [k |-> "nan", n |-> 0, d |-> 1]

IsFin(a) == a.k = "fin"
IsZero(a) == a.k = "fin" /\ a.n = 0
\* -1, 0, 1 for a value that is not NaN
Sign(a) ==
    CASE a.k = "pinf" -> 1
      [] a.k = "ninf" -> -1
      [] OTHER -> IF a.n > 0 THEN 1 ELSE IF a.n < 0 THEN -1 ELSE 0

Neg(a) ==
    CASE a.k = "fin" -> [a EXCEPT !.n = -a.n]
      [] a.k = "pinf" -> NInf
      [] a.k = "ninf" -> PInf
      [] OTHER -> NaN

Add(a, b) ==
    CASE a.k = "nan" \/ b.k = "nan" -> NaN
      [] a.k = "fin" /\ b.k = "fin" ->
            LET g == GCD(a.d, b.d)
            IN  Rat(a.n * (b.d \div g) + b.n * (a.d \div g), (a.d \div g) * b.d)
      [] a.k = "fin" -> b
      [] b.k = "fin" -> a
      [] OTHER -> IF a.k = b.k THEN a ELSE NaN

Sub(a, b) == Add(a, Neg(b))

Mul(a, b) ==
    CASE a.k = "nan" \/ b.k = "nan" -> NaN
      [] a.k = "fin" /\ b.k = "fin" ->
            LET g1 == GCD(Abs(a.n), b.d)
                g2 == GCD(Abs(b.n), a.d)
            IN  IF a.n = 0 \/ b.n = 0 THEN Fin(0)
                ELSE Rat((a.n \div g1) * (b.n \div g2), (a.d \div g2) * (b.d \div g1))
      [] OTHER ->
            IF Sign(a) = 0 \/ Sign(b) = 0 THEN NaN
            ELSE IF Sign(a) = Sign(b) THEN PInf ELSE NInf

\* a ** (-1) on a numpy float: 0.0 ** -1 is inf (a RuntimeWarning, no exception)
Inv(a) ==
    CASE a.k = "nan" -> NaN
      [] a.k = "fin" -> IF a.n = 0 THEN PInf ELSE Rat(a.d, a.n)
      [] OTHER -> Fin(0)

\* a < b; false as soon as one side is NaN
Lt(a, b) ==
    /\ a.k # "nan"
    /\ b.k # "nan"
    /\ CASE a.k = "fin" /\ b.k = "fin" -> a.n * b.d < b.n * a.d
         [] a.k = "ninf" -> b.k # "ninf"
         [] a.k = "pinf" -> FALSE
         [] OTHER -> b.k = "pinf"

\* a >= b; false as soon as one side is NaN
Ge(a, b) == a.k # "nan" /\ b.k # "nan" /\ ~Lt(a, b)

\* PyMin with the cap at 1 lost: the second argument is returned as it is
PyMinNoCap(a, b) == b

\* Python's builtin min(a, b): b when b < a, otherwise a (so min(1, NaN) = 1)
PyMin(a, b) == IF Lt(b, a) THEN b ELSE a

RECURSIVE Pow2(_)
Pow2(n) == IF n = 0 THEN 1 ELSE 2 * Pow2(n - 1)

\* np.exp(y), given t = 2y
Exp(t) ==
    CASE t.k = "nan" -> NaN
      [] t.k = "pinf" -> PInf
      [] t.k = "ninf" -> Fin(0)
      [] OTHER -> IF t.n >= 0 THEN Fin(Pow2(t.n)) ELSE Rat(1, Pow2(-t.n))

InUnit(a) == a.k = "fin" /\ a.n >= 0 /\ a.n <= a.d

\* ------------------------------------------------------------ data
\* parameters.npar: one sampled parameter
npar == 1
\* parameters.lower_limits[parind], parameters.upper_limits[parind]
lower_limits == 0
upper_limits == 2
InBoundsThetas == lower_limits..upper_limits
\* the values of old_set.theta that are enumerated
OldThetas == {0, 1}
\* the standard-normal draws u that are enumerated
NormalDraws == {-1, 0, 1, 2}
\* the uniform draws that are enumerated: 0, and a value below 1 that is
\* above every acceptance probability below 1
UniformDraws == {"zero", "nearone"}
\* the error variances that are enumerated
SigmaValues == {1, 2}
\* RDR[i], invR[i] of the code are RDR[i+1], invR[i+1] here: proposal factors
\* and their inverses, one per stage (unit factors: the DR scale is 1)
RDR == [i \in 1..(MaxNtry + 1) |-> 1]
invR == [i \in 1..(MaxNtry + 1) |-> 1]

\* a field that was never assigned (None)
NoneV == [k |-> "none", n |-> 0, d |-> 1]
\* a collaborator call that raises
Raise == [k |-> "raise", n |-> 0, d |-> 1]
\* a theta at which a collaborator was not evaluated yet
Unset == [k |-> "unset", n |-> 0, d |-> 1]

\* ParameterSet(theta, ss, prior, like, sigma2, alpha)
ParameterSet(theta, ss, prior, like, sigma2, alpha) ==
    [theta |-> theta, ss |-> ss, prior |-> prior, like |-> like,
     sigma2 |-> sigma2, alpha |-> alpha]

\* what evaluate_sos_function may do on an in-bounds theta, for variance s2
\* (finite values are multiples of s2, so that ss/sigma2 is an integer)
SosOutcomes(s2) == {Fin(s2 * s) : s \in 0..MaxSS} \cup {NaN, NInf, Raise}
\* what evaluate_prior may do on an in-bounds theta
PriorOutcomes == {Fin(p) : p \in 0..MaxPrior} \cup {NaN, Raise}
\* evaluate_likelihood(theta)
evaluate_likelihood(theta) == Fin(theta + 1)

\* ------------------------------------------------------------ pure functions
\* is_sample_outside_bounds(theta, lower, upper)
is_sample_outside_bounds(theta, lower, upper) == theta < lower \/ theta > upper

\* sample_candidate_from_gaussian_proposal(npar, oldpar, R): oldpar + u.R
sample_candidate_from_gaussian_proposal(oldpar, u, R) == oldpar + u * R

\* set_outside_bounds(next_set): alpha = 0, prior = 0, ss = inf
set_outside_bounds(next_set) ==
    [next_set EXCEPT !.alpha = Fin(0), !.prior = Fin(0), !.ss = PInf]

\* logposteriorratio(x1, x2), doubled:
\*   -0.5*(sum(x2.ss*x2.sigma2**-1 - x1.ss*x1.sigma2**-1) + x2.prior - x1.prior)
logposteriorratio(x1, x2) ==
    Neg(Sub(Add(Sub(Mul(x2.ss, Inv(Fin(x2.sigma2))),
                    Mul(x1.ss, Inv(Fin(x1.sigma2)))),
                x2.prior),
            x1.prior))

\* qfun whose backward term runs between the neighbours y_{n-iq} and
\* y_{n-iq-1} of the tail: y3 = trypath[stage + 1 - iq]
qfunNeighbours(iq, trypath, iR) ==
    LET stage == Len(trypath) - 1 - 1
        y1 == trypath[0 + 1].theta
        y2 == trypath[iq + 1 + 1].theta
        y3 == trypath[stage + 1 - iq + 1].theta
        y4 == trypath[stage - iq + 1].theta
    IN  IF stage = iq THEN Fin(0)
        ELSE Fin(-(((y4 - y3) * iR[iq + 1]) * ((y4 - y3) * iR[iq + 1])
                   - ((y2 - y1) * iR[iq + 1]) * ((y2 - y1) * iR[iq + 1])))

\* qfun(iq, trypath, invR), doubled; trypath[i] of the code is trypath[i+1] here
qfun(iq, trypath, iR) ==
    LET stage == Len(trypath) - 1 - 1
        y1 == trypath[0 + 1].theta
        y2 == trypath[iq + 1 + 1].theta
        y3 == trypath[stage + 1 + 1].theta
        y4 == trypath[stage - iq + 1].theta
    IN  IF stage = iq THEN Fin(0)
        ELSE Fin(-(((y4 - y3) * iR[iq + 1]) * ((y4 - y3) * iR[iq + 1])
                   - ((y2 - y1) * iR[iq + 1]) * ((y2 - y1) * iR[iq + 1])))

\* qsum that leaves the proposal terms out
qsumNoProposal(y, k, trypath, iR) == y

\* sum of qfun(k, trypath, invR) for k in range(kmax), added to y in that order
RECURSIVE qsum(_, _, _, _)
qsum(y, k, trypath, iR) ==
    IF k >= Len(trypath) - 1 THEN y
    ELSE qsum(Add(y, qfun(k, trypath, iR)), k + 1, trypath, iR)

\* the slice seq[start:stop] of Python (0-based, stop exclusive), 0 <= start
PySlice(seq, start, stop) ==
    LET hi == IF stop > Len(seq) THEN Len(seq) ELSE stop
    IN  IF hi <= start THEN << >> ELSE SubSeq(seq, start + 1, hi)

\* PySliceRev with the stop index off by one: seq[start:stop+1:-1]
PySliceRevOffByOne(seq, start, stop) ==
    LET st == IF start >= Len(seq) THEN Len(seq) - 1 ELSE start
    IN  IF st <= stop + 1 THEN << >>
        ELSE [j \in 1..(st - stop - 1) |-> seq[st - (j - 1) + 1]]

\* the slice seq[start:stop:-1] of Python: indices start, start-1, ... down to
\* stop+1; a negative stop counts from the end of the sequence
PySliceRev(seq, start, stop) ==
    LET lo == IF stop < 0 THEN (IF stop + Len(seq) < 0 THEN -1 ELSE stop + Len(seq))
              ELSE stop
        st == IF start >= Len(seq) THEN Len(seq) - 1 ELSE start
    IN  IF st <= lo THEN << >>
        ELSE [j \in 1..(st - lo) |-> seq[st - (j - 1) + 1]]

\* alphafun(trypath, invR).  The result is a record: alpha, the value returned;
\* divzero, whether a1 was 0 when exp(y)*a2*(a1**(-1)) was evaluated, in this
\* call or a nested one; calls, the number of alphafun invocations made (the
\* increments of dr_step_counter); alphas, every value returned by this call
\* and its nested calls; nested, for every pass of the loop made by this call
\* or a nested one, the path of the caller, k, and the two sub-paths on which
\* alphafun was re-invoked.
RECURSIVE alphafun(_, _)
RECURSIVE alphaloop(_, _, _, _)
\* alphaloop without the early return at a2 == 0
RECURSIVE alphaloopNoEarlyReturn(_, _, _, _)
alphaloopNoEarlyReturn(trypath, iR, k, st) ==
    LET stage == Len(trypath) - 1
        step(r1, r2, a2) ==
            [a1 |-> Mul(st.a1, Sub(Fin(1), r1.alpha)), a2 |-> a2, early |-> FALSE,
             divzero |-> st.divzero \/ r1.divzero \/ r2.divzero,
             calls |-> st.calls + r1.calls + r2.calls,
             alphas |-> st.alphas \cup r1.alphas \cup r2.alphas,
             nested |-> st.nested \cup r1.nested \cup r2.nested \cup
                        {[path |-> trypath, k |-> k,
                          fwd |-> PySlice(trypath, 0, k + 2),
                          bwd |-> PySliceRev(trypath, stage, stage - k - 2)]}]
    IN  IF k >= stage - 1 THEN st
        ELSE alphaloopNoEarlyReturn(trypath, iR, k + 1,
                 CHOOSE s \in UNION {{step(r1, r2, a2) :
                                        a2 \in {Mul(st.a2, Sub(Fin(1), r2.alpha))}} :
                        r1 \in {alphafun(PySlice(trypath, 0, k + 2), iR)},
                        r2 \in {alphafun(PySliceRev(trypath, stage, stage - k - 2), iR)}} :
                     TRUE)

alphaloop(trypath, iR, k, st) ==
    LET stage == Len(trypath) - 1
        step(r1, r2, a2) ==
            [a1 |-> Mul(st.a1, Sub(Fin(1), r1.alpha)), a2 |-> a2, early |-> IsZero(a2),
             divzero |-> st.divzero \/ r1.divzero \/ r2.divzero,
             calls |-> st.calls + r1.calls + r2.calls,
             alphas |-> st.alphas \cup r1.alphas \cup r2.alphas,
             nested |-> st.nested \cup r1.nested \cup r2.nested \cup
                        {[path |-> trypath, k |-> k,
                          fwd |-> PySlice(trypath, 0, k + 2),
                          bwd |-> PySliceRev(trypath, stage, stage - k - 2)]}]
    IN  IF k >= stage - 1 \/ st.early THEN st
        ELSE alphaloop(trypath, iR, k + 1,
                 CHOOSE s \in UNION {{step(r1, r2, a2) :
                                        a2 \in {Mul(st.a2, Sub(Fin(1), r2.alpha))}} :
                        r1 \in {alphafun(PySlice(trypath, 0, k + 2), iR)},
                        r2 \in {alphafun(PySliceRev(trypath, stage, stage - k - 2), iR)}} :
                     TRUE)

alphafun(trypath, iR) ==
    LET value(st) ==
            IF st.early THEN Fin(0)
            ELSE PyMin(Fin(1),
                       Mul(Mul(Exp(qsum(logposteriorratio(trypath[1], trypath[Len(trypath)]),
                                        0, trypath, iR)),
                               st.a2),
                           Inv(st.a1)))
        result(st, alpha) ==
            [alpha |-> alpha,
             divzero |-> st.divzero \/ (~st.early /\ IsZero(st.a1)),
             calls |-> st.calls,
             alphas |-> st.alphas \cup {alpha},
             nested |-> st.nested]
    IN  CHOOSE r \in UNION {{result(st, alpha) : alpha \in {value(st)}} :
                            st \in {alphaloop(trypath, iR, 0,
                                      [a1 |-> Fin(1), a2 |-> Fin(1), early |-> FALSE,
                                       divzero |-> FALSE, calls |-> 1, alphas |-> {},
                                       nested |-> {}])}} :
            TRUE

\* evaluate_likelihood_function(ss1, ss2, sigma2, newprior, oldprior):
\*   sum(exp(-0.5*(sum((ss1 - ss2)*sigma2**-1) + newprior - oldprior)))
evaluate_likelihood_function(ss1, ss2, sigma2, newprior, oldprior) ==
    Exp(Neg(Sub(Add(Mul(Sub(ss1, ss2), Inv(Fin(sigma2))), newprior), oldprior)))

\* whether the uniform draw u is below alpha
UniformBelow(u, alpha) ==
    IF u = "zero" THEN Lt(Fin(0), alpha) ELSE Ge(alpha, Fin(1))

\* acceptance_test(alpha): alpha >= 1 or a uniform draw below alpha;
\* the draw is made only when alpha >= 1 is false
acceptance_test(alpha, u) == Ge(alpha, Fin(1)) \/ UniformBelow(u, alpha)


\* ------------------------------------------------------------ state
VARIABLES
    pc,               \* "idle", "m_done", "m_failed", "dr_loop", "dr_done", "dr_failed"
    sos_model,        \* evaluate_sos_function: its value at each theta seen so far
    prior_model,      \* evaluate_prior: its value at each theta seen so far
    old_set,          \* the current state of the chain
    new_set,          \* the first candidate (DR), the returned newset (Metropolis)
    candidate,        \* theta of the candidate sampled last; -9 before the first
    trypath,          \* the trial path of the DR run
    itry,             \* DR step index
    ntry,             \* number of tries allowed
    accept,           \* 0 - reject, 1 - accept (False, True in the Metropolis step)
    out_set,          \* the local out_set; NoneV while it is unbound
    outbound,         \* the local outbound; -1 while it is unbound
    iacce,            \* number accepted from DR, per stage index
    dr_step_counter,  \* number of alphafun invocations
    calls,            \* collaborator invocations, in order
    rng,              \* draws taken from the random source, in order
    divzero,          \* a1 was 0 when exp(y)*a2*(a1**(-1)) was evaluated
    alphas,           \* every value alphafun returned, nested calls included
    nested,           \* the re-invocations of alphafun in the call of the last stage
    err               \* "none", or the exception that left the call

vars == <<pc, sos_model, prior_model, old_set, new_set, candidate, trypath, itry,
          ntry, accept, out_set, outbound, iacce, dr_step_counter, calls, rng,
          divzero, alphas, nested, err>>

\* the collaborators are deterministic: a theta evaluated before gives the same
\* value again, a theta evaluated for the first time gives any outcome
SosChoices(theta) ==
    IF sos_model[theta] = Unset THEN SosOutcomes(old_set.sigma2) ELSE {sos_model[theta]}
PriorChoices(theta) ==
    IF prior_model[theta] = Unset THEN PriorOutcomes ELSE {prior_model[theta]}

Init ==
    /\ pc = "idle"
    /\ \E s2 \in SigmaValues, th \in OldThetas, s \in 0..MaxSS, p \in 0..MaxPrior :
         /\ sos_model = [t \in InBoundsThetas |-> IF t = th THEN Fin(s2 * s) ELSE Unset]
         /\ prior_model = [t \in InBoundsThetas |-> IF t = th THEN Fin(p) ELSE Unset]
         /\ old_set = ParameterSet(th, Fin(s2 * s), Fin(p), evaluate_likelihood(th),
                                   s2, NoneV)
    /\ new_set = NoneV
    /\ candidate = -9
    /\ trypath = << >>
    /\ itry = 0
    /\ ntry = 0
    /\ accept = 0
    /\ out_set = NoneV
    /\ outbound = -1
    /\ iacce = << >>
    /\ dr_step_counter = 0
    /\ calls = << >>
    /\ rng = << >>
    /\ divzero = FALSE
    /\ alphas = {}
    /\ nested = {}
    /\ err = "none"

\* ------------------------------------------------------------ Metropolis
\* MetropolisCallsFor with the model evaluated before the bounds test
MetropolisCallsAlways(outsidebounds) == <<"prior", "like", "sos", "sos">>

\* the collaborator calls the step makes, by the branch taken
MetropolisCallsFor(outsidebounds) ==
    IF outsidebounds THEN << >> ELSE <<"prior", "like", "sos", "sos">>

\* newset_of storing ss2, the old sum of squares, in place of ss1
newset_old_ss(old, newpar, ss1, newprior, newlike, alpha) ==
    ParameterSet(newpar, old.ss, newprior, newlike, old.sigma2, alpha)

\* newset = ParameterSet(theta=newpar, ss=ss1, prior=newprior, like=newlike,
\*                       sigma2=sigma2, alpha=alpha)
newset_of(old, newpar, ss1, newprior, newlike, alpha) ==
    ParameterSet(newpar, ss1, newprior, newlike, old.sigma2, alpha)

\* the draws of one Metropolis step: the candidate, then the acceptance test
MetropolisDraws(alpha) ==
    IF Ge(alpha, Fin(1)) THEN <<"randn">> ELSE <<"randn", "rand">>

\* run_metropolis_step, candidate outside the bounds
MetropolisOutOfBounds ==
    /\ pc = "idle"
    /\ \E u \in NormalDraws :
         LET newpar == sample_candidate_from_gaussian_proposal(old_set.theta, u, RDR[1])
         IN  /\ is_sample_outside_bounds(newpar, lower_limits, upper_limits)
             /\ candidate' = newpar
             /\ new_set' = set_outside_bounds(
                    ParameterSet(newpar, NoneV, NoneV, NoneV, old_set.sigma2, NoneV))
    /\ outbound' = 1
    /\ accept' = 0
    /\ calls' = calls \o MetropolisCallsFor(TRUE)
    /\ rng' = rng \o <<"randn">>
    /\ pc' = "m_done"
    /\ UNCHANGED <<sos_model, prior_model, old_set, trypath, itry, ntry, out_set,
                   iacce, dr_step_counter, divzero, alphas, nested, err>>

\* run_metropolis_step, candidate inside the bounds, every collaborator returns
MetropolisEvaluate ==
    /\ pc = "idle"
    /\ \E u \in NormalDraws, u2 \in UniformDraws :
         LET newpar == sample_candidate_from_gaussian_proposal(old_set.theta, u, RDR[1])
         IN  /\ ~is_sample_outside_bounds(newpar, lower_limits, upper_limits)
             /\ candidate' = newpar
             /\ \E newprior \in PriorChoices(newpar) \ {Raise},
                   ss1 \in SosChoices(newpar) \ {Raise} :
                  LET alpha == evaluate_likelihood_function(
                                   ss1, old_set.ss, old_set.sigma2, newprior, old_set.prior)
                  IN  /\ prior_model' = [prior_model EXCEPT ![newpar] = newprior]
                      /\ sos_model' = [sos_model EXCEPT ![newpar] = ss1]
                      /\ accept' = IF acceptance_test(alpha, u2) THEN 1 ELSE 0
                      /\ rng' = rng \o MetropolisDraws(alpha)
                      /\ new_set' = newset_of(old_set, newpar, ss1, newprior,
                                              evaluate_likelihood(newpar), alpha)
    /\ outbound' = 0
    /\ calls' = calls \o MetropolisCallsFor(FALSE)
    /\ pc' = "m_done"
    /\ UNCHANGED <<old_set, trypath, itry, ntry, out_set, iacce, dr_step_counter,
                   divzero, alphas, nested, err>>

\* run_metropolis_step, evaluate_prior or evaluate_sos_function raises: the
\* exception leaves the step
MetropolisRaise ==
    /\ pc = "idle"
    /\ \E u \in NormalDraws :
         LET newpar == sample_candidate_from_gaussian_proposal(old_set.theta, u, RDR[1])
         IN  /\ ~is_sample_outside_bounds(newpar, lower_limits, upper_limits)
             /\ candidate' = newpar
             /\ \/ /\ Raise \in PriorChoices(newpar)
                   /\ prior_model' = [prior_model EXCEPT ![newpar] = Raise]
                   /\ sos_model' = sos_model
                   /\ calls' = calls \o <<"prior">>
                \/ /\ \E newprior \in PriorChoices(newpar) \ {Raise} :
                        prior_model' = [prior_model EXCEPT ![newpar] = newprior]
                   /\ Raise \in SosChoices(newpar)
                   /\ sos_model' = [sos_model EXCEPT ![newpar] = Raise]
                   /\ calls' = calls \o <<"prior", "like", "sos">>
    /\ outbound' = 0
    /\ rng' = rng \o <<"randn">>
    /\ pc' = "m_failed"
    /\ err' = "raised"
    /\ UNCHANGED <<old_set, new_set, trypath, itry, ntry, accept, out_set, iacce,
                   dr_step_counter, divzero, alphas, nested>>

\* ------------------------------------------------------------ Delayed Rejection
\* LoopCondition without the test of accept
LoopConditionNoAccept(acc, it, nt) == it < nt

\* while accept == 0 and itry < ntry
LoopCondition(acc, it, nt) == acc = 0 /\ it < nt

\* return accept, out_set, outbound: reading a local that was never assigned
\* raises UnboundLocalError
ReturnPc(acc, it, nt, out, outb) ==
    IF LoopCondition(acc, it, nt) THEN "dr_loop"
    ELSE IF out = NoneV \/ outb = -1 THEN "dr_failed" ELSE "dr_done"
ReturnErr(acc, it, nt, out, outb) ==
    IF ~LoopCondition(acc, it, nt) /\ (out = NoneV \/ outb = -1)
    THEN "UnboundLocalError" ELSE "none"

\* StageCandidate sampled from the first candidate instead of old_set
StageCandidateFromNew(u, it) ==
    ParameterSet(new_set.theta + u * RDR[it - 1 + 1], NoneV, NoneV, NoneV,
                 new_set.sigma2, NoneV)

\* next_set of a stage before the bounds check: sampled from old_set.theta with
\* RDR[itry-1], itry already incremented; sigma2 of new_set
StageCandidate(u, it) ==
    ParameterSet(old_set.theta + u * RDR[it - 1 + 1], NoneV, NoneV, NoneV,
                 new_set.sigma2, NoneV)

\* the bounds test of a stage
StageOutside(theta) == theta < lower_limits \/ theta > upper_limits

\* OutboundSet that leaves ss unassigned
OutboundSetNoSS(next_set) == [next_set EXCEPT !.alpha = Fin(0), !.prior = Fin(0)]

\* next_set of a stage whose candidate is outside the bounds
OutboundSet(next_set) ==
    [next_set EXCEPT !.alpha = Fin(0), !.prior = Fin(0), !.ss = PInf]

\* StageDraws with the uniform number drawn in every stage
StageDrawsAlways(outside, alpha) == <<"randn", "rand">>

\* the draws of one stage: u = randn(1, npar), then rand(1) when the candidate
\* was evaluated and alpha >= 1 is false
StageDraws(outside, alpha) ==
    IF outside \/ Ge(alpha, Fin(1)) THEN <<"randn">> ELSE <<"randn", "rand">>

\* the call of run_delayed_rejection(old_set, new_set, RDR, ntry, ...) after
\* initialize_dr_metrics(options), up to the first test of the loop condition;
\* new_set is a candidate that a Metropolis step on old_set has returned
dr_call ==
    /\ pc = "idle"
    /\ \E n \in 1..MaxNtry, u \in NormalDraws :
         LET newpar == sample_candidate_from_gaussian_proposal(old_set.theta, u, RDR[1])
         IN  /\ candidate' = newpar
             /\ ntry' = n
             /\ iacce' = [i \in 1..n |-> 0]
             /\ pc' = ReturnPc(0, 1, n, out_set, outbound)
             /\ err' = ReturnErr(0, 1, n, out_set, outbound)
             /\ IF is_sample_outside_bounds(newpar, lower_limits, upper_limits)
                THEN /\ new_set' = set_outside_bounds(
                            ParameterSet(newpar, NoneV, NoneV, NoneV, old_set.sigma2, NoneV))
                     /\ UNCHANGED <<sos_model, prior_model>>
                ELSE \E newprior \in PriorChoices(newpar) \ {Raise},
                        ss1 \in SosChoices(newpar) \ {Raise} :
                       /\ prior_model' = [prior_model EXCEPT ![newpar] = newprior]
                       /\ sos_model' = [sos_model EXCEPT ![newpar] = ss1]
                       /\ new_set' = newset_of(old_set, newpar, ss1, newprior,
                              evaluate_likelihood(newpar),
                              evaluate_likelihood_function(ss1, old_set.ss, old_set.sigma2,
                                                           newprior, old_set.prior))
    /\ trypath' = <<old_set, new_set'>>
    /\ itry' = 1
    /\ accept' = 0
    /\ dr_step_counter' = 0
    /\ UNCHANGED <<old_set, out_set, outbound, calls, rng, divzero, alphas, nested>>

\* one pass of the loop whose candidate is outside the bounds
dr_stage_outbound ==
    /\ pc = "dr_loop"
    /\ LoopCondition(accept, itry, ntry)
    /\ \E u \in NormalDraws :
         LET next_set == StageCandidate(u, itry + 1)
         IN  /\ StageOutside(next_set.theta)
             /\ candidate' = next_set.theta
             /\ trypath' = Append(trypath, OutboundSet(next_set))
    /\ itry' = itry + 1
    /\ outbound' = 1
    /\ out_set' = old_set
    /\ rng' = rng \o StageDraws(TRUE, Fin(0))
    /\ pc' = ReturnPc(accept, itry', ntry, out_set', outbound')
    /\ err' = ReturnErr(accept, itry', ntry, out_set', outbound')
    /\ UNCHANGED <<sos_model, prior_model, old_set, new_set, ntry, accept, iacce,
                   dr_step_counter, calls, divzero, alphas, nested>>

\* one pass of the loop whose candidate is inside the bounds and is evaluated
dr_stage_evaluate ==
    /\ pc = "dr_loop"
    /\ LoopCondition(accept, itry, ntry)
    /\ \E u \in NormalDraws :
         LET cand == StageCandidate(u, itry + 1)
         IN  /\ ~StageOutside(cand.theta)
             /\ candidate' = cand.theta
             /\ \E ss \in SosChoices(cand.theta) \ {Raise},
                   prior \in PriorChoices(cand.theta) \ {Raise} :
                  LET next_set == [cand EXCEPT !.ss = ss, !.prior = prior]
                  IN  \E r \in {alphafun(Append(trypath, next_set), invR)} :
                      \E u2 \in UniformDraws :
                        LET alpha == r.alpha
                        IN  /\ sos_model' = [sos_model EXCEPT ![cand.theta] = ss]
                            /\ prior_model' = [prior_model EXCEPT ![cand.theta] = prior]
                            /\ trypath' = Append(trypath, [next_set EXCEPT !.alpha = alpha])
                            /\ dr_step_counter' = dr_step_counter + r.calls
                            /\ divzero' = (divzero \/ r.divzero)
                            /\ alphas' = alphas \cup r.alphas
                            /\ nested' = r.nested
                            /\ accept' = IF Ge(alpha, Fin(1)) \/ UniformBelow(u2, alpha)
                                         THEN 1 ELSE 0
                            /\ rng' = rng \o StageDraws(FALSE, alpha)
                            /\ out_set' = IF accept' = 1
                                          THEN [next_set EXCEPT !.alpha = alpha]
                                          ELSE old_set
                            /\ iacce' = IF accept' = 1
                                        THEN [iacce EXCEPT ![(itry + 1) - 1 + 1] = @ + 1]
                                        ELSE iacce
    /\ itry' = itry + 1
    /\ outbound' = 0
    /\ calls' = calls \o <<"sos", "prior">>
    /\ pc' = ReturnPc(accept', itry', ntry, out_set', outbound')
    /\ err' = ReturnErr(accept', itry', ntry, out_set', outbound')
    /\ UNCHANGED <<old_set, new_set, ntry>>

\* one pass of the loop in which evaluate_sos_function or evaluate_prior raises:
\* the exception leaves run_delayed_rejection
dr_stage_raise ==
    /\ pc = "dr_loop"
    /\ LoopCondition(accept, itry, ntry)
    /\ \E u \in NormalDraws :
         LET cand == StageCandidate(u, itry + 1)
         IN  /\ ~StageOutside(cand.theta)
             /\ candidate' = cand.theta
             /\ \/ /\ Raise \in SosChoices(cand.theta)
                   /\ sos_model' = [sos_model EXCEPT ![cand.theta] = Raise]
                   /\ prior_model' = prior_model
                   /\ calls' = calls \o <<"sos">>
                \/ /\ \E ss \in SosChoices(cand.theta) \ {Raise} :
                        sos_model' = [sos_model EXCEPT ![cand.theta] = ss]
                   /\ Raise \in PriorChoices(cand.theta)
                   /\ prior_model' = [prior_model EXCEPT ![cand.theta] = Raise]
                   /\ calls' = calls \o <<"sos", "prior">>
    /\ itry' = itry + 1
    /\ outbound' = 0
    /\ rng' = rng \o <<"randn">>
    /\ pc' = "dr_failed"
    /\ err' = "raised"
    /\ UNCHANGED <<old_set, new_set, trypath, ntry, accept, out_set, iacce,
                   dr_step_counter, divzero, alphas, nested>>

Next ==
    \/ MetropolisOutOfBounds
    \/ MetropolisEvaluate
    \/ MetropolisRaise
    \/ dr_call
    \/ dr_stage_outbound
    \/ dr_stage_evaluate
    \/ dr_stage_raise

Spec == Init /\ [][Next]_vars

\* ------------------------------------------------------------ claims
InMetropolis == pc \in {"m_done", "m_failed"}
InDR == pc \in {"dr_loop", "dr_done", "dr_failed"}
\* the stages of the trial path: the elements appended by run_delayed_rejection
Stages == 3..Len(trypath)

\* C1: a Metropolis step whose candidate is outside the bounds returns
\* accept = False, outbound = 1 and a state with ss = +inf, prior = 0,
\* alpha = 0, and calls no collaborator.
C1_OutOfBoundsRejected ==
    (InMetropolis /\ is_sample_outside_bounds(candidate, lower_limits, upper_limits))
    => /\ pc = "m_done"
       /\ accept = 0
       /\ outbound = 1
       /\ new_set.theta = candidate
       /\ new_set.ss = PInf
       /\ new_set.prior = Fin(0)
       /\ new_set.alpha = Fin(0)
       /\ calls = << >>
C1_Witness ==
    pc = "m_done" /\ is_sample_outside_bounds(candidate, lower_limits, upper_limits)

\* C2: a DR stage whose candidate is outside the bounds records alpha = 0,
\* prior = 0, ss = +inf, appends the candidate to the trial path, calls neither
\* collaborator nor alphafun, uses up one try, and is never the accepted result:
\* an accepted result is the in-bounds candidate of the last stage with the
\* collaborators' ss and prior.
C2_StatePart ==
    InDR =>
      /\ \A i \in Stages :
           StageOutside(trypath[i].theta) =>
             /\ trypath[i].alpha = Fin(0)
             /\ trypath[i].prior = Fin(0)
             /\ trypath[i].ss = PInf
      /\ accept = 1 =>
           /\ Len(trypath) >= 3
           /\ out_set = trypath[Len(trypath)]
           /\ ~StageOutside(out_set.theta)
           /\ out_set.ss = sos_model[out_set.theta]
           /\ out_set.prior = prior_model[out_set.theta]
C2_StepPart ==
    (pc = "dr_loop" /\ itry' # itry /\ StageOutside(candidate'))
    => /\ itry' = itry + 1
       /\ Len(trypath') = Len(trypath) + 1
       /\ SubSeq(trypath', 1, Len(trypath)) = trypath
       /\ trypath'[Len(trypath')].theta = candidate'
       /\ calls' = calls
       /\ dr_step_counter' = dr_step_counter
       /\ accept' = 0
       /\ pc' # "dr_failed"
C2_OutboundStage == [](C2_StatePart) /\ [][C2_StepPart]_vars
C2_Witness ==
    /\ pc = "dr_done"
    /\ accept = 1
    /\ \E i \in Stages : StageOutside(trypath[i].theta)

\* C3: with ntry >= 2 a run executes at most ntry-1 stages, each stage moves
\* itry up by one, no stage follows an accepted one; an accepted run returns
\* the candidate of its last stage, a run whose ntry-1 stages were all rejected
\* or out of bounds returns accept = 0 and old_set.
C3_StatePart ==
    (InDR /\ ntry >= 2) =>
      /\ itry <= ntry
      /\ Len(trypath) <= itry + 1
      /\ pc = "dr_loop" => (accept = 0 /\ itry < ntry)
      /\ accept = 1 => pc = "dr_done"
      /\ (pc = "dr_done" /\ accept = 1) =>
           (Len(trypath) = itry + 1 /\ out_set = trypath[Len(trypath)])
      /\ (pc = "dr_done" /\ accept = 0) =>
           (itry = ntry /\ Len(trypath) = ntry + 1 /\ out_set = old_set)
      /\ err # "UnboundLocalError"
C3_StepPart ==
    /\ accept = 1 => (trypath' = trypath /\ itry' = itry)
    /\ pc = "dr_loop" => itry' = itry + 1
    /\ old_set' = old_set
C3_StagesBounded == [](C3_StatePart) /\ [][C3_StepPart]_vars
C3_Witness == pc = "dr_done" /\ accept = 1 /\ itry < ntry

\* C4: with ntry = 1 the run draws nothing, calls nothing and returns normally:
\* not accepted, the result old_set, the out-of-bounds flag defined.
C4_NtryOneReturns ==
    (InDR /\ ntry = 1) =>
      /\ pc = "dr_done"
      /\ accept = 0
      /\ out_set = old_set
      /\ outbound \in {0, 1}
      /\ rng = << >>
      /\ calls = << >>
      /\ dr_step_counter = 0

\* C5: the alpha recorded by a Metropolis step on an in-bounds candidate with
\* finite ss and prior is min(1, exp(y)), so it lies in [0, 1].
C5_AlphaCapped ==
    (pc = "m_done" /\ outbound = 0 /\ IsFin(new_set.ss) /\ IsFin(new_set.prior))
    => /\ new_set.alpha = PyMin(Fin(1), evaluate_likelihood_function(
              new_set.ss, old_set.ss, old_set.sigma2, new_set.prior, old_set.prior))
       /\ InUnit(new_set.alpha)

\* C6: every value alphafun returns, in the call of a stage and in every nested
\* call, lies in [0, 1], and so does the alpha of every state the run appends
\* to the trial path.
C6_AlphaInUnit ==
    /\ \A a \in alphas : InUnit(a)
    /\ InDR => \A i \in Stages : InUnit(trypath[i].alpha)
C6_Witness ==
    /\ Len(trypath) = 4
    /\ ~StageOutside(trypath[4].theta)
    /\ Fin(1) \in alphas
    /\ \E a \in alphas : Lt(Fin(0), a) /\ Lt(a, Fin(1))

\* C7 as stated: a Metropolis step that rejects an in-bounds candidate returns
\* the unchanged old_set.
C7_RejectReturnsOld ==
    (pc = "m_done" /\ accept = 0 /\ outbound = 0) => new_set = old_set
\* C7 amended: a Metropolis step that rejects an in-bounds candidate returns the
\* rejected candidate: its theta, the collaborators' ss, prior and like at it,
\* the sigma2 of old_set and the computed ratio as alpha.
C7_RejectReturnsCandidate ==
    (pc = "m_done" /\ accept = 0 /\ outbound = 0) =>
      /\ new_set.theta = candidate
      /\ new_set.ss = sos_model[candidate]
      /\ new_set.prior = prior_model[candidate]
      /\ new_set.like = evaluate_likelihood(candidate)
      /\ new_set.sigma2 = old_set.sigma2
      /\ new_set.alpha # NoneV
      /\ new_set # old_set
C7_Witness ==
    /\ pc = "m_done" /\ accept = 0 /\ outbound = 0
    /\ candidate # old_set.theta
    /\ new_set.ss # old_set.ss

\* C8: when a1 is zero where exp(y)*a2/a1 is computed (here on a trial path
\* whose evaluated states have finite ss and prior), the run ends in a fatal
\* error.
C8_ZeroA1Trapped ==
    (/\ divzero
     /\ \A i \in 1..Len(trypath) :
          StageOutside(trypath[i].theta) \/ (IsFin(trypath[i].ss) /\ IsFin(trypath[i].prior)))
    => pc = "dr_failed"

\* C9 as stated: every executed stage draws one normal vector and then one
\* uniform number.
C9_TwoDrawsPerStage ==
    pc \in {"dr_loop", "dr_done"} =>
      rng = [i \in 1..(2 * (itry - 1)) |-> IF i % 2 = 1 THEN "randn" ELSE "rand"]
\* C9 amended: every executed stage draws one normal vector first; it then draws
\* one uniform number exactly when its candidate is in bounds, was evaluated and
\* has alpha < 1, and no other draw is made.
C9_StepPart ==
    (pc = "dr_loop" /\ itry' # itry) =>
      rng' = rng \o (IF /\ pc' # "dr_failed"
                        /\ ~StageOutside(candidate')
                        /\ ~Ge(trypath'[Len(trypath')].alpha, Fin(1))
                     THEN <<"randn", "rand">> ELSE <<"randn">>)
C9_DrawsPerStage == [][C9_StepPart]_vars
C9_Witness == pc = "dr_done" /\ itry = 3 /\ Len(rng) = 3

\* C10: a collaborator value that is NaN or -inf ends the step in a fatal
\* failure: no completed step or stage holds such a value.
C10_NonFiniteIsFatal ==
    /\ (pc = "m_done" /\ outbound = 0) =>
         (new_set.ss \notin {NaN, NInf} /\ new_set.prior \notin {NaN, NInf})
    /\ pc \in {"dr_loop", "dr_done"} =>
         \A i \in Stages :
           trypath[i].ss \notin {NaN, NInf} /\ trypath[i].prior \notin {NaN, NInf}

\* C11: for a path y_0..y_n given to alphafun, the pass k of its loop (k in
\* 0..n-2, the passes made form an initial part of that range) re-invokes
\* alphafun on the prefix y_0..y_{k+1} and on the reversed suffix
\* y_n, y_{n-1}, .., y_{n-k-1}; both have k+2 elements, at least 2 and fewer
\* than the path, and every path of three or more states evaluated by a stage
\* makes pass 0.
C11_SubPaths ==
    /\ \A c \in nested :
         LET n == Len(c.path) - 1
         IN  /\ c.k \in 0..(n - 2)
             /\ c.fwd = [j \in 1..(c.k + 2) |-> c.path[j]]
             /\ c.bwd = [j \in 1..(c.k + 2) |-> c.path[(n + 1) - (j - 1)]]
             /\ Len(c.fwd) = c.k + 2 /\ Len(c.bwd) = c.k + 2
             /\ c.k + 2 >= 2 /\ c.k + 2 < Len(c.path)
             /\ \A k2 \in 0..c.k : \E c2 \in nested : c2.path = c.path /\ c2.k = k2
    /\ (pc \in {"dr_loop", "dr_done"} /\ Len(trypath) >= 3
          /\ ~StageOutside(trypath[Len(trypath)].theta))
       => \E c \in nested :
             c.path = [trypath EXCEPT ![Len(trypath)].alpha = NoneV] /\ c.k = 0
C11_Witness ==
    /\ \E c \in nested : Len(c.path) = 4 /\ c.k = 1 /\ c.path[4].theta = candidate
    /\ \E c \in nested : Len(c.path) = 3 /\ c.path[1] # old_set

\* the single-stage ratio a(u, v) = min(1, exp(L(u, v)))
SingleStageRatio(u, v) == PyMin(Fin(1), Exp(logposteriorratio(u, v)))

\* the two-stage ratio of the path y0, y1, y2:
\*   min(1, exp(L(y0,y2) + q_0) * (1 - a(y2,y1)) / (1 - a(y0,y1))),
\* 0 when a(y2,y1) = 1
TwoStageRatio(y0, y1, y2) ==
    IF SingleStageRatio(y2, y1) = Fin(1) THEN Fin(0)
    ELSE PyMin(Fin(1),
               Mul(Mul(Exp(Add(logposteriorratio(y0, y2), qfun(0, <<y0, y1, y2>>, invR))),
                       Sub(Fin(1), SingleStageRatio(y2, y1))),
                   Inv(Sub(Fin(1), SingleStageRatio(y0, y1)))))

\* the first stage of a run has evaluated its in-bounds candidate
FirstStageEvaluated ==
    /\ pc \in {"dr_loop", "dr_done"}
    /\ Len(trypath) = 3
    /\ ~StageOutside(trypath[3].theta)

\* C12: on a one-retry path y0, y1, y2 alphafun returns the two-stage ratio;
\* it re-invokes itself on (y0, y1) and (y2, y1) only, three invocations in
\* all, and a two-element path has a zero proposal term.
C12_TwoStageClosedForm ==
    FirstStageEvaluated =>
      LET y0 == trypath[1]
          y1 == trypath[2]
          y2 == [trypath[3] EXCEPT !.alpha = NoneV]
      IN  /\ trypath[3].alpha = TwoStageRatio(y0, y1, y2)
          /\ nested = {[path |-> <<y0, y1, y2>>, k |-> 0,
                        fwd |-> <<y0, y1>>, bwd |-> <<y2, y1>>]}
          /\ dr_step_counter = 3
          /\ qfun(0, <<y0, y1>>, invR) = Fin(0)
          /\ qfun(0, <<y2, y1>>, invR) = Fin(0)
C12_Witness ==
    /\ FirstStageEvaluated
    /\ Lt(Fin(0), trypath[3].alpha) /\ Lt(trypath[3].alpha, Fin(1))
    /\ qfun(0, trypath, invR) # Fin(0)
    /\ Lt(Fin(0), SingleStageRatio(trypath[3], trypath[2]))
    /\ Lt(Fin(0), SingleStageRatio(trypath[1], trypath[2]))

\* every path alphafun was invoked on in the call of the last stage
PathsEvaluated ==
    {c.path : c \in nested} \cup {c.fwd : c \in nested} \cup {c.bwd : c \in nested}

\* inverse factors that differ from stage to stage, to tell invR[k] from the rest
StageFactors == [i \in 1..(MaxNtry + 2) |-> i]

Sq(x) == x * x

\* q_k as C13 states it (doubled): 0 for k = n-1, otherwise the backward term
\* between b_k and b_{k+1}, b_j = y_{n-j}, the forward term between y_{k+1}
\* and y_0
QfunStated(k, path, iR) ==
    LET n == Len(path) - 1
        y(i) == path[i + 1].theta
        b(j) == y(n - j)
    IN  IF k = n - 1 THEN Fin(0)
        ELSE Fin(-(Sq((b(k) - b(k + 1)) * iR[k + 1]) - Sq((y(k + 1) - y(0)) * iR[k + 1])))

\* q_k with the backward term between b_{k+1} and b_0, the mirror image of the
\* forward term
QfunMirrored(k, path, iR) ==
    LET n == Len(path) - 1
        y(i) == path[i + 1].theta
        b(j) == y(n - j)
    IN  IF k = n - 1 THEN Fin(0)
        ELSE Fin(-(Sq((b(k + 1) - b(0)) * iR[k + 1]) - Sq((y(k + 1) - y(0)) * iR[k + 1])))

\* C13 as stated: for every path y_0..y_n alphafun is invoked on and every k
\* in 0..n-1, qfun(k) is 0 for k = n-1 and otherwise
\* -0.5*(||(b_k - b_{k+1}).invR[k]||^2 - ||(y_{k+1} - y_0).invR[k]||^2).
C13_QfunNeighbourTerm ==
    \A path \in PathsEvaluated : \A k \in 0..(Len(path) - 2) :
        qfun(k, path, StageFactors) = QfunStated(k, path, StageFactors)
\* C13 amended: qfun(k) is 0 for k = n-1 and otherwise
\* -0.5*(||(b_{k+1} - b_0).invR[k]||^2 - ||(y_{k+1} - y_0).invR[k]||^2): the
\* backward term runs from the last element of the path to the element k+1
\* places before it.
C13_QfunMirroredTerm ==
    \A path \in PathsEvaluated : \A k \in 0..(Len(path) - 2) :
        /\ qfun(k, path, StageFactors) = QfunMirrored(k, path, StageFactors)
        /\ qfun(k, path, invR) = QfunMirrored(k, path, invR)
C13_Witness ==
    \E path \in PathsEvaluated :
        /\ Len(path) = 4
        /\ qfun(1, path, StageFactors) # Fin(0)
        /\ qfun(1, path, StageFactors) # QfunStated(1, path, StageFactors)
        /\ qfun(1, path, StageFactors) # qfun(1, path, invR)
        /\ qfun(2, path, StageFactors) = Fin(0)

\* new_set was rejected by the single-stage test with a ratio below 1 (0 when
\* it is outside the bounds), and every evaluated state of the trial path has
\* finite ss and prior
RejectedFinitePath ==
    /\ InDR
    /\ Lt(new_set.alpha, Fin(1))
    /\ \A i \in 1..Len(trypath) :
         StageOutside(trypath[i].theta) \/ (IsFin(trypath[i].ss) /\ IsFin(trypath[i].prior))

C15_StatePart ==
    InDR =>
      /\ Len(trypath) >= 2
      /\ trypath[1] = old_set
      /\ trypath[2] = new_set
      /\ \A i \in Stages :
           /\ \E u \in NormalDraws : trypath[i].theta = old_set.theta + u * RDR[i - 1]
           /\ trypath[i].sigma2 = new_set.sigma2
      /\ err # "raised" => (Len(trypath) = itry + 1 /\ Len(trypath) <= ntry + 1)
C15_StepPart ==
    pc = "dr_loop" =>
      /\ old_set' = old_set
      /\ new_set' = new_set
      /\ Len(trypath') >= Len(trypath)
      /\ SubSeq(trypath', 1, Len(trypath)) = trypath
      /\ IF err' = "raised" THEN trypath' = trypath
         ELSE /\ Len(trypath') = Len(trypath) + 1
              /\ trypath'[Len(trypath')].theta = candidate'
              /\ itry' = itry + 1
====
